---- MODULE Spec2Model ----
(***************************************************************************)
(* Layer integration and convection engine of PlanetProfile:               *)
(* IceIConvect, IceIIIConvect and IceVConvect of                           *)
(* Thermodynamics/FromLiterature/Convection.py, run in that order on one   *)
(* shared stack of shells.                                                 *)
(*                                                                         *)
(* Numbers.  The code computes in binary floating point; the model         *)
(* computes on an integer grid.  Every assignment of the code is one       *)
(* real-valued expression followed by one rounding; here the rounding is   *)
(* the floor onto the integer grid (x \div y), applied once per            *)
(* assignment.  Units are chosen so that all quantities fit 32-bit         *)
(* integers: temperatures 1..96, pressures in steps of the shell spacing,  *)
(* a body of radius 250 and mass 1.5e9 with G = 1.  Pi is 22/7.            *)
(***************************************************************************)
EXTENDS Integers, Sequences, FiniteSets, TLC

VARIABLES
    P_MPa, T_K, z_m, r_m, rho_kgm3, Cp_JkgK, alpha_pK, kTherm_WmK, g_ms2, MLayer_kg,
    Bulk,          \* Planet.Bulk: R_m, M_kg, Tsurf_K, Tb_K, TbIII_K, TbV_K, clathMaxDepth_m
    Pb,            \* Planet.PbClath_MPa, PbI_MPa, PbIII_MPa, PbV_MPa
    Steps,         \* Planet.Steps.nClath (the other step counts are fixed below)
    Do,            \* Planet.Do.CLATHRATE
    zClath_m,      \* Planet.zClath_m
    eos,           \* which EOS oracle Planet.Ocean carries
    conv,          \* per phase: Tconv_K, etaConv_Pas, eLid_m, deltaTBL_m, RaConvect
    QfromMantle_W, \* Planet.Ocean.QfromMantle_W, one field shared by the phases
    Pmid,          \* the mid-layer pressure handed to the classifier, per phase
    phase,         \* which call is running: "I", "III", "V", or "end"
    pc,            \* position inside the call
    i,             \* loop index of the running for-loop
    zb_m,          \* zbI_m / zbIII_m / zbV_m of the running call
    iConductEnd,   \* nConduct (ice I) / iConductEnd
    iConvectEnd,   \* nConduct + nConvect (ice I) / iConvectEnd
    thisMAbove_kg, \* running mass above
    branch,        \* per phase, the branch its call took: "none", "whole", "three"
    err,           \* the exception that ended the run, or "none"
    pre            \* the shell arrays as they were when the running call began

arrays == <<P_MPa, T_K, z_m, r_m, rho_kgm3, Cp_JkgK, alpha_pK, kTherm_WmK, g_ms2, MLayer_kg>>
inputs == <<Bulk, Pb, Steps, Do, zClath_m, eos>>
locals == <<i, zb_m, iConductEnd, iConvectEnd, thisMAbove_kg>>
planetVars == <<arrays, inputs, conv, QfromMantle_W, Pmid, phase, pc, locals, branch, err, pre>>

(***************************************************************************)
(* PerplexEOSStruct.__init__ of Thermodynamics/InnerEOS.py: the Perple_X   *)
(* table file and the locals of the constructor.  Flat columns and grids   *)
(* are functions on 0..n-1, as numpy arrays are.  Of the seven dependent   *)
(* columns, all treated by the same statements, the density is modelled.   *)
(***************************************************************************)
VARIABLES
    EOSfile,        \* the table file: column header, length of each axis, values
    firstPT,        \* first column of the file
    secondPT,       \* second column of the file
    rhoTab,         \* rho_kgm3 of the constructor: flat column, then 2D grid
    dim2,
    P_FIRST,
    Plin_MPa,
    Tlin_K,
    lenP,
    P1D_MPa,
    T1D_K,
    fn_rho_grid,    \* the grid self.fn_rho_kgm3 was built on: [x, y, z]
    epc,            \* position inside the constructor
    eerr            \* the exception that ended the constructor, or "none"

loaderVars == <<EOSfile, firstPT, secondPT, rhoTab, dim2, P_FIRST, Plin_MPa, Tlin_K, lenP,
                P1D_MPa, T1D_K, fn_rho_grid, epc, eerr>>
vars == <<planetVars, loaderVars>>

(***************************************************************************)
(* Sizes of the stack: the number of shells each phase owns.               *)
(***************************************************************************)
nIceI == 4
nIceIII == 3
nIceV == 3

nIbottom == nIceI
nIIIbottom == nIbottom + nIceIII
nSurfIce == nIIIbottom + nIceV
Shells == 0..nSurfIce

MPa2Pa == 1000000
G == 1

Min(a, b) == IF a <= b THEN a ELSE b
Max(a, b) == IF a >= b THEN a ELSE b

RECURSIVE SumTo(_, _)
\* np.sum(f[:n]) and the running thisMAbove_kg: f[0] + ... + f[n-1]
SumTo(f, n) == IF n <= 0 THEN 0 ELSE SumTo(f, n - 1) + f[n - 1]

(***************************************************************************)
(* x ** y for the power-law (Weertman-style) interpolation                 *)
(*     Thi ** (p/q) * Tlo ** (1 - p/q)                                     *)
(* On the integer grid the result is the floor of that value: the largest  *)
(* x with x^q <= Thi^p * Tlo^(q - p).  The powers do not fit in 32 bits,   *)
(* so the comparison is made on logarithms,                                *)
(*     q ln x <= p ln Thi + (q - p) ln Tlo,                                *)
(* with ln x to twelve decimals in two limbs: LnHi[x] is the integer part  *)
(* of 10^6 ln x and LnLo[x] holds the next six decimals.  The two sides    *)
(* count as equal when they differ by at most q units of the twelfth       *)
(* decimal, which is the rounding the table can accumulate.  For Thi, Tlo  *)
(* in TGrid and q <= 40 no two unequal sides are closer than               *)
(* 279465 units, so the result is the exact floor.  A value that is a      *)
(* whole number (9 ** 0.5 * 1 ** 0.5 = 3, Thi = Tlo) is kept whole: the    *)
(* double the code computes there lies within one rounding of it.          *)
(***************************************************************************)
LnHi == <<0, 693147, 1098612, 1386294, 1609437, 1791759, 1945910, 2079441,
          2197224, 2302585, 2397895, 2484906, 2564949, 2639057, 2708050, 2772588,
          2833213, 2890371, 2944438, 2995732, 3044522, 3091042, 3135494, 3178053,
          3218875, 3258096, 3295836, 3332204, 3367295, 3401197, 3433987, 3465735,
          3496507, 3526360, 3555348, 3583518, 3610917, 3637586, 3663561, 3688879,
          3713572, 3737669, 3761200, 3784189, 3806662, 3828641, 3850147, 3871201,
          3891820, 3912023, 3931825, 3951243, 3970291, 3988984, 4007333, 4025351,
          4043051, 4060443, 4077537, 4094344, 4110873, 4127134, 4143134, 4158883,
          4174387, 4189654, 4204692, 4219507, 4234106, 4248495, 4262679, 4276666,
          4290459, 4304065, 4317488, 4330733, 4343805, 4356708, 4369447, 4382026,
          4394449, 4406719, 4418840, 4430816, 4442651, 4454347, 4465908, 4477336,
          4488636, 4499809, 4510859, 4521788, 4532599, 4543294, 4553876, 4564348>>

LnLo == <<0, 180560, 288668, 361120, 912434, 469228, 149055, 541680,
          577336, 92994, 272798, 649788, 357462, 329615, 201102, 722240,
          344056, 757896, 979166, 273554, 437723, 453358, 215929, 830348,
          824868, 538021, 866004, 510175, 829986, 381662, 204485, 902800,
          561466, 524616, 61489, 938456, 912644, 159726, 646130, 454114,
          66704, 618283, 115694, 633918, 489770, 396489, 601710, 10908,
          298111, 5428, 632724, 718581, 913552, 46564, 185232, 690735,
          267835, 10546, 443906, 562222, 864173, 385045, 726392, 83360,
          269896, 742026, 619391, 705176, 504597, 242049, 877041, 119016,
          441148, 93204, 113536, 340286, 421854, 826690, 852467, 634674,
          154672, 247264, 607797, 798843, 256490, 296254, 118655, 814478,
          369732, 670330, 506517, 577049, 493153, 782270, 891601, 191468>>

LnUnit == 1000000
TGrid == 1..Len(LnHi)

\* x^q <= Thi^p * Tlo^(q - p), compared on the logarithms
PowNotAbove(x, Thi, Tlo, p, q) ==
    LET dHi == p * LnHi[Thi] + (q - p) * LnHi[Tlo] - q * LnHi[x]
        dLo == p * LnLo[Thi] + (q - p) * LnLo[Tlo] - q * LnLo[x]
    IN  IF dHi > q THEN TRUE
        ELSE IF dHi < -q THEN FALSE
        ELSE dHi * LnUnit + dLo + q >= 0

PowLaw(Thi, Tlo, p, q) ==
    CHOOSE x \in TGrid :
        /\ PowNotAbove(x, Thi, Tlo, p, q)
        /\ x + 1 \in TGrid => ~PowNotAbove(x + 1, Thi, Tlo, p, q)

(***************************************************************************)
(* The EOS oracle: positive functions of (P, T), one table per phase.      *)
(* "const" is the constant oracle; "PT" depends mildly on pressure and     *)
(* temperature; "steep" has a density that falls fast with temperature     *)
(* and a small heat capacity, hence a steep adiabat.                       *)
(* Tables: surfIceEOS['Ih'], ['III'], ['V'] and iceEOS['V'].               *)
(***************************************************************************)
rhoBase(tab) == CASE tab = "Ih" -> 16 [] tab = "III" -> 18 [] tab = "V" -> 19 [] OTHER -> 20

EOSrho(e, tab, Pv, Tv) ==
    CASE e = "const" -> 10
      [] e = "PT" -> rhoBase(tab) + (Pv \div 4) - (Tv \div 5)
      [] OTHER -> Max(8, rhoBase(tab) + 4 - (Tv \div 2))
EOSCp(e, tab, Pv, Tv) ==
    CASE e = "const" -> 3000000
      [] e = "PT" -> 2000000 + 20000 * Tv + (IF tab = "iceV" THEN 1 ELSE 0)
      [] OTHER -> 10000 * Tv
EOSalpha(e, tab, Pv, Tv) ==
    CASE e = "PT" -> 1 + (Tv \div 20)
      [] OTHER -> 1
EOSkTherm(e, tab, Pv, Tv) ==
    CASE e = "PT" -> 1 + (60 \div Tv) + (IF tab = "iceV" THEN 1 ELSE 0)
      [] OTHER -> 2

fn_rho_kgm3(tab, Pv, Tv) == EOSrho(eos, tab, Pv, Tv)
fn_Cp_JkgK(tab, Pv, Tv) == EOSCp(eos, tab, Pv, Tv)
fn_alpha_pK(tab, Pv, Tv) == EOSalpha(eos, tab, Pv, Tv)
fn_kTherm_WmK(tab, Pv, Tv) == EOSkTherm(eos, tab, Pv, Tv)

(***************************************************************************)
(* One radial step onto a shell from the shell before it: depth from the   *)
(* hydrostatic relation with the previous shell's gravity and density,     *)
(* radius, mass of the layer above, gravity from the mass below.           *)
(***************************************************************************)
StepDepth(zprev, Pk, Pprev, gprev, rhoprev) ==
    zprev + ((Pk - Pprev) * MPa2Pa) \div (gprev * rhoprev)
StepRadius(R, znew) == R - znew
StepMLayer(rhoprev, rprev, rnew) ==
    (4 * 22 * rhoprev * (rprev * rprev * rprev - rnew * rnew * rnew)) \div (3 * 7)
StepGravity(M, MAnew, rnew) == (G * (M - MAnew)) \div (rnew * rnew)

RadialStep(k) ==
    LET znew == StepDepth(z_m[k-1], P_MPa[k], P_MPa[k-1], g_ms2[k-1], rho_kgm3[k-1])
        rnew == StepRadius(Bulk.R_m, znew)
        mnew == StepMLayer(rho_kgm3[k-1], r_m[k-1], rnew)
        MAnew == thisMAbove_kg + mnew
    IN  /\ z_m' = [z_m EXCEPT ![k] = znew]
        /\ r_m' = [r_m EXCEPT ![k] = rnew]
        /\ MLayer_kg' = [MLayer_kg EXCEPT ![k-1] = mnew]
        /\ thisMAbove_kg' = MAnew
        /\ g_ms2' = [g_ms2 EXCEPT ![k] = StepGravity(Bulk.M_kg, MAnew, rnew)]

(***************************************************************************)
(* The stack before the first call: linear pressures, the conductive       *)
(* guess for the temperatures (the same power law, phase by phase), the    *)
(* properties from each phase's table, and depth, radius, mass and         *)
(* gravity from the radial step, so that the data model's invariants hold. *)
(***************************************************************************)
Scenarios ==
    { [P0 |-> 0, dP |-> <<2, 2, 2>>, eos |-> "const", TbIII |-> 34, CLATHRATE |-> FALSE, nClath |-> 0, zClath |-> 0],
      [P0 |-> 2, dP |-> <<2, 2, 2>>, eos |-> "const", TbIII |-> 34, CLATHRATE |-> FALSE, nClath |-> 0, zClath |-> 0],
      [P0 |-> 0, dP |-> <<2, 2, 2>>, eos |-> "PT",    TbIII |-> 34, CLATHRATE |-> FALSE, nClath |-> 0, zClath |-> 0],
      [P0 |-> 2, dP |-> <<2, 1, 1>>, eos |-> "PT",    TbIII |-> 34, CLATHRATE |-> FALSE, nClath |-> 0, zClath |-> 0],
      [P0 |-> 0, dP |-> <<2, 1, 1>>, eos |-> "steep", TbIII |-> 34, CLATHRATE |-> FALSE, nClath |-> 0, zClath |-> 0],
      [P0 |-> 0, dP |-> <<2, 2, 2>>, eos |-> "const", TbIII |-> 20, CLATHRATE |-> FALSE, nClath |-> 0, zClath |-> 0],
      [P0 |-> 0, dP |-> <<3, 1, 1>>, eos |-> "PT",    TbIII |-> 34, CLATHRATE |-> FALSE, nClath |-> 0, zClath |-> 0],
      [P0 |-> 0, dP |-> <<2, 2, 2>>, eos |-> "const", TbIII |-> 34, CLATHRATE |-> TRUE,  nClath |-> 1, zClath |-> 8],
      [P0 |-> 0, dP |-> <<2, 2, 2>>, eos |-> "const", TbIII |-> 34, CLATHRATE |-> TRUE,  nClath |-> 3, zClath |-> 24] }

InitBulk(sc) ==
    [R_m |-> 250, M_kg |-> 1500000000, Tsurf_K |-> 10, Tb_K |-> 30, TbIII_K |-> sc.TbIII,
     TbV_K |-> 38, clathMaxDepth_m |-> 0]

InitP(sc) ==
    [k \in Shells |-> sc.P0 + sc.dP[1] * Min(k, nIbottom)
                            + sc.dP[2] * Max(0, Min(k, nIIIbottom) - nIbottom)
                            + sc.dP[3] * Max(0, k - nIIIbottom)]

InitT(sc) ==
    LET PP == InitP(sc)
        B == InitBulk(sc)
    IN  [k \in Shells |->
            IF k <= nIbottom
            THEN PowLaw(B.Tb_K, B.Tsurf_K, PP[k] - PP[0], PP[nIbottom] - PP[0])
            ELSE IF k <= nIIIbottom
            THEN PowLaw(B.TbIII_K, B.Tb_K, PP[k] - PP[nIbottom], PP[nIIIbottom] - PP[nIbottom])
            ELSE PowLaw(B.TbV_K, B.TbIII_K, PP[k] - PP[nIIIbottom], PP[nSurfIce] - PP[nIIIbottom])]

InitTab(k) == IF k < nIbottom THEN "Ih" ELSE IF k < nIIIbottom THEN "III" ELSE "V"

InitRho(sc) ==
    [k \in Shells |-> EOSrho(sc.eos, InitTab(k), InitP(sc)[k], InitT(sc)[k])]

RECURSIVE InitHydro(_, _)
InitHydro(sc, k) ==
    IF k = 0
    THEN [z |-> [s \in Shells |-> 0],
          r |-> [s \in Shells |-> InitBulk(sc).R_m],
          g |-> [s \in Shells |-> StepGravity(InitBulk(sc).M_kg, 0, InitBulk(sc).R_m)],
          M |-> [s \in Shells |-> 0],
          MA |-> 0]
    ELSE LET st == InitHydro(sc, k - 1)
             PP == InitP(sc)
             rh == InitRho(sc)
             znew == StepDepth(st.z[k-1], PP[k], PP[k-1], st.g[k-1], rh[k-1])
             rnew == StepRadius(InitBulk(sc).R_m, znew)
             mnew == StepMLayer(rh[k-1], st.r[k-1], rnew)
             MAnew == st.MA + mnew
         IN  [z |-> [st.z EXCEPT ![k] = znew],
              r |-> [st.r EXCEPT ![k] = rnew],
              g |-> [st.g EXCEPT ![k] = StepGravity(InitBulk(sc).M_kg, MAnew, rnew)],
              M |-> [st.M EXCEPT ![k-1] = mnew],
              MA |-> MAnew]

Snapshot ==
    [P |-> P_MPa, T |-> T_K, z |-> z_m, r |-> r_m, rho |-> rho_kgm3, Cp |-> Cp_JkgK,
     alpha |-> alpha_pK, kTherm |-> kTherm_WmK, g |-> g_ms2, M |-> MLayer_kg]

(***************************************************************************)
(* Perple_X table files.  A table lists a dependent value for every        *)
(* (P, T) pair of a regular grid, one row per pair, the first column       *)
(* running through its whole range before the second moves on; the last    *)
(* header line names the columns, first column first (colHeader0 is its   *)
(* first character).  Pressures are in bar.  All values are finite, so the NaN repair of lines 38-86 leaves    *)
(* the columns as they are.                                                *)
(***************************************************************************)
AxisLengths == {1, 4, 5}

EOSfiles ==
    [colHeader0 : {"P", "T", "r"}, n1 : AxisLengths \ {1}, n2 : AxisLengths, vals : {"a", "b"}]

\* the iP-th pressure (bar) and the iT-th temperature of a table
Pbar(iP) == 1000 + 50 * iP
TofTable(iT) == 200 + 10 * iT

\* the dependent value a table holds at the iP-th pressure and iT-th temperature
ValueAt(f, iP, iT) ==
    IF f.vals = "a" THEN 3000 + 10 * iP + iT ELSE 5000 - (7 * iP) - (40 * iT)

\* number of rows of a file, and the indices of row r on the first and second column's axes
NRows(f) == f.n1 * f.n2
FirstIdx(f, r) == r % f.n1
SecondIdx(f, r) == r \div f.n1

\* does the file list pressure in its first column (a header that names neither P nor T: pressure)
PInFirstColumn(f) == f.colHeader0 # "T"

\* np.loadtxt(self.fpath, skiprows=nHeaders, unpack=True)
loadtxt(f) ==
    [firstPT |-> [r \in 0..(NRows(f) - 1) |->
                    IF PInFirstColumn(f) THEN Pbar(FirstIdx(f, r)) ELSE TofTable(FirstIdx(f, r))],
     secondPT |-> [r \in 0..(NRows(f) - 1) |->
                    IF PInFirstColumn(f) THEN TofTable(SecondIdx(f, r)) ELSE Pbar(SecondIdx(f, r))],
     rho_kgm3 |-> [r \in 0..(NRows(f) - 1) |->
                    IF PInFirstColumn(f) THEN ValueAt(f, FirstIdx(f, r), SecondIdx(f, r))
                    ELSE ValueAt(f, SecondIdx(f, r), FirstIdx(f, r))]]

Empty == [r \in {} |-> 0]

NoTableLoaded ==
    /\ EOSfile = [colHeader0 |-> "", n1 |-> 0, n2 |-> 0, vals |-> ""]
    /\ firstPT = Empty /\ secondPT = Empty /\ rhoTab = Empty
    /\ dim2 = 0 /\ P_FIRST = FALSE
    /\ Plin_MPa = Empty /\ Tlin_K = Empty /\ lenP = 0
    /\ P1D_MPa = Empty /\ T1D_K = Empty
    /\ fn_rho_grid = [x |-> Empty, y |-> Empty, z |-> Empty]
    /\ epc = "idle" /\ eerr = "none"

NoRegime == [Tconv_K |-> 0, etaConv_Pas |-> 0, eLid_m |-> 0, deltaTBL_m |-> 0, RaConvect |-> 0]

InitPlanet(sc) ==
        LET h == InitHydro(sc, nSurfIce)
        IN  /\ eos = sc.eos
            /\ P_MPa = InitP(sc)
            /\ T_K = InitT(sc)
            /\ rho_kgm3 = [k \in Shells |-> fn_rho_kgm3(InitTab(k), P_MPa[k], T_K[k])]
            /\ Cp_JkgK = [k \in Shells |-> fn_Cp_JkgK(InitTab(k), P_MPa[k], T_K[k])]
            /\ alpha_pK = [k \in Shells |-> fn_alpha_pK(InitTab(k), P_MPa[k], T_K[k])]
            /\ kTherm_WmK = [k \in Shells |-> fn_kTherm_WmK(InitTab(k), P_MPa[k], T_K[k])]
            /\ z_m = h.z
            /\ r_m = h.r
            /\ g_ms2 = h.g
            /\ MLayer_kg = h.M
            /\ Bulk = InitBulk(sc)
            /\ Pb = [PbClath_MPa |-> P_MPa[sc.nClath], PbI_MPa |-> P_MPa[nIbottom],
                     PbIII_MPa |-> P_MPa[nIIIbottom], PbV_MPa |-> P_MPa[nSurfIce]]
            /\ Steps = [nClath |-> sc.nClath]
            /\ Do = [CLATHRATE |-> sc.CLATHRATE]
            /\ zClath_m = sc.zClath
            /\ conv = [ph \in {"I", "III", "V"} |-> NoRegime]
            /\ QfromMantle_W = 0
            /\ Pmid = [ph \in {"I", "III", "V"} |-> 0]
            /\ phase = "I"
            /\ pc = "call"
            /\ i = 0
            /\ zb_m = 0
            /\ iConductEnd = 0
            /\ iConvectEnd = 0
            /\ thisMAbove_kg = 0
            /\ branch = [ph \in {"I", "III", "V"} |-> "none"]
            /\ err = "none"
            /\ pre = Snapshot

Init == \E sc \in Scenarios : InitPlanet(sc) /\ NoTableLoaded

(***************************************************************************)
(* What differs between the three routines.                                *)
(***************************************************************************)
Phases == {"I", "III", "V"}
top(ph) == CASE ph = "I" -> 0 [] ph = "III" -> nIbottom [] OTHER -> nIIIbottom
bottom(ph) == CASE ph = "I" -> nIbottom [] ph = "III" -> nIIIbottom [] OTHER -> nSurfIce
Ttop(ph) == CASE ph = "I" -> Bulk.Tsurf_K [] ph = "III" -> Bulk.Tb_K [] OTHER -> Bulk.TbIII_K
Tbot(ph) == CASE ph = "I" -> Bulk.Tb_K [] ph = "III" -> Bulk.TbIII_K [] OTHER -> Bulk.TbV_K
PbOf(ph) == CASE ph = "I" -> Pb.PbI_MPa [] ph = "III" -> Pb.PbIII_MPa [] OTHER -> Pb.PbV_MPa
PtopOf(ph) == CASE ph = "I" -> Pb.PbClath_MPa [] ph = "III" -> Pb.PbI_MPa [] OTHER -> Pb.PbIII_MPa
surfIceEOS(ph) == CASE ph = "I" -> "Ih" [] ph = "III" -> "III" [] OTHER -> "V"

\* an ice V convecting interior that reads the table of its lid
convEOSOfLid(ph) == CASE ph = "I" -> "Ih" [] ph = "III" -> "III" [] OTHER -> "V"

convEOS(ph) == CASE ph = "I" -> "Ih" [] ph = "III" -> "III" [] OTHER -> "iceV"
checksTb(ph) == ph \in {"III", "V"}
nextPhase(ph) == CASE ph = "I" -> "III" [] ph = "III" -> "V" [] OTHER -> "end"

\* zbI_m, zbIII_m, zbV_m
zbOf(ph) ==
    IF ph = "I" THEN z_m[nIbottom - 1] ELSE z_m[bottom(ph) - 1] - z_m[top(ph) - 1]
\* the depth the thicknesses are measured from in the index search
zRef(ph) == IF ph = "I" THEN 0 ELSE z_m[top(ph)]
PmidOf(ph) == (PbOf(ph) - PtopOf(ph)) \div 2

\* next(i[0] for i, val in np.ndenumerate(Planet.z_m) if val > v); -1: StopIteration
FirstAbove(v) ==
    IF \E k \in Shells : z_m[k] > v
    THEN CHOOSE k \in Shells : z_m[k] > v /\ \A j \in Shells : z_m[j] > v => k <= j
    ELSE -1

indsTBL(ph) == iConvectEnd..bottom(ph)

\* a property update that runs over the whole boundary layer, bottom shell included
indsTBLWithLast(ph) == iConvectEnd..bottom(ph)

\* indsTBL[:-1]
indsTBLButLast(ph) == iConvectEnd..(bottom(ph) - 1)

(***************************************************************************)
(* The classifier (ThermalProfiles.ConvectionDeschampsSotin2001) returns   *)
(* the regime of a layer.  Its scaling laws are outside this module: the   *)
(* call yields any of these regimes, with thicknesses that make the layer  *)
(* conduct as a whole, convect in three zones, or convect in a zone that   *)
(* holds no shell.                                                         *)
(***************************************************************************)
ConvectionDeschampsSotin2001(Tt, Tb_, zb) ==
    { [Tconv_K |-> t, etaConv_Pas |-> 100 + t, eLid_m |-> e, deltaTBL_m |-> d,
       QfromMantle_W |-> 1000 + zb + t, RaConvect |-> 10 * zb] :
        t \in {Tb_ - 2, Tb_},
        e \in {zb \div 4, zb \div 2},
        d \in {zb \div 4, (zb \div 2) - 1, zb - (zb \div 2)} }

(***************************************************************************)
(* Whole-layer conduction (lines 37-46, 178-183, 319-324): the ice I call  *)
(* recomputes the heat flux from the first two shells; nothing else.       *)
(***************************************************************************)
qSurf_Wm2(reg) ==
    ((T_K[1] - Bulk.Tsurf_K) * kTherm_WmK[0] * 4 * 22 * Bulk.R_m * Bulk.R_m)
        \div ((Bulk.R_m - r_m[1]) * 7)

\* a whole-layer branch that resets the bottom shell to the classifier's temperature
WholeLayerConductionResetsT(reg) ==
    /\ QfromMantle_W' = IF phase = "I" THEN qSurf_Wm2(reg) ELSE reg.QfromMantle_W
    /\ branch' = [branch EXCEPT ![phase] = "whole"]
    /\ pc' = "ret"
    /\ T_K' = [T_K EXCEPT ![bottom(phase)] = reg.Tconv_K]
    /\ UNCHANGED <<P_MPa, z_m, r_m, rho_kgm3, Cp_JkgK, alpha_pK, kTherm_WmK, g_ms2, MLayer_kg,
                   i, iConductEnd, iConvectEnd, thisMAbove_kg, err>>

WholeLayerConduction(reg) ==
    /\ QfromMantle_W' = IF phase = "I" THEN qSurf_Wm2(reg) ELSE reg.QfromMantle_W
    /\ branch' = [branch EXCEPT ![phase] = "whole"]
    /\ pc' = "ret"
    /\ UNCHANGED <<arrays, i, iConductEnd, iConvectEnd, thisMAbove_kg, err>>

(***************************************************************************)
(* Layer transition indices (lines 50-56, 187-189, 328-330).               *)
(***************************************************************************)
\* a clathrate check that tolerates one clathrate shell below the lid
nClathTooDeepByTwo(iCond) == Steps.nClath > iCond + 1

\* if (Planet.Steps.nClath > nConduct)
nClathTooDeep(iCond) == Steps.nClath > iCond

ThreeZoneIndices(reg) ==
    LET iCond == FirstAbove(zRef(phase) + reg.eLid_m)
        iConv == FirstAbove(zRef(phase) + zbOf(phase) - reg.deltaTBL_m)
    IN  /\ QfromMantle_W' = reg.QfromMantle_W
        /\ branch' = [branch EXCEPT ![phase] = "three"]
        /\ iConductEnd' = iCond
        /\ iConvectEnd' = iConv
        /\ IF iCond = -1 \/ iConv = -1
           THEN err' = "StopIteration" /\ pc' = "err"
           ELSE IF phase = "I" /\ nClathTooDeep(iCond)
           THEN err' = "ValueError" /\ pc' = "err"
           ELSE err' = err /\ pc' = "lidT"
        /\ UNCHANGED <<arrays, i, thisMAbove_kg>>

(***************************************************************************)
(* Entry of a call up to the branch: thickness, mid pressure, classifier,  *)
(* clathrate depth warning, then one of the two branches.                  *)
(***************************************************************************)
\* every routine assigning the ice I attributes Tconv_K, etaConv_Pas, eLid_m, deltaTBL_m, RaConvect
summaryOfIceI(ph) == "I"

\* the attributes a routine assigns its regime to: Tconv_K..., TconvIII_K..., TconvV_K...
summaryOf(ph) == ph

\* a fallback test that lets a layer exactly as thick as its two boundary layers convect
WholeLayerStrict(reg, zb) == zb < reg.eLid_m + reg.deltaTBL_m

\* if(zbI_m <= Planet.eLid_m + Planet.deltaTBL_m)
WholeLayer(reg, zb) == zb <= reg.eLid_m + reg.deltaTBL_m

Call ==
    /\ pc = "call"
    /\ phase \in Phases
    /\ \E reg \in ConvectionDeschampsSotin2001(Ttop(phase), Tbot(phase), zbOf(phase)) :
        /\ zb_m' = zbOf(phase)
        /\ Pmid' = [Pmid EXCEPT ![phase] = PmidOf(phase)]
        /\ conv' = [conv EXCEPT ![summaryOf(phase)] =
                        [Tconv_K |-> reg.Tconv_K, etaConv_Pas |-> reg.etaConv_Pas,
                         eLid_m |-> reg.eLid_m, deltaTBL_m |-> reg.deltaTBL_m,
                         RaConvect |-> reg.RaConvect]]
        /\ Bulk' = IF phase = "I" /\ zClath_m > reg.eLid_m
                   THEN [Bulk EXCEPT !.clathMaxDepth_m = reg.eLid_m]
                   ELSE Bulk
        /\ pre' = Snapshot
        /\ IF WholeLayer(reg, zbOf(phase))
           THEN WholeLayerConduction(reg)
           ELSE ThreeZoneIndices(reg)
    /\ UNCHANGED <<Pb, Steps, Do, zClath_m, eos, phase>>
    /\ UNCHANGED loaderVars

(***************************************************************************)
(* Conductive lid (lines 58-79, 191-213, 332-355): mass above, power-law   *)
(* temperatures from the top shell to the transition shell, properties.    *)
(***************************************************************************)
LidRange(ph) == top(ph)..iConductEnd

LidT(ph, k) ==
    PowLaw(conv[ph].Tconv_K, T_K[top(ph)], P_MPa[k], P_MPa[iConductEnd])

\* every routine starting its running mass at zero, as the ice I routine does
InitMAboveZero(ph) == 0

InitMAbove(ph) == IF ph = "I" THEN 0 ELSE SumTo(MLayer_kg, top(ph))

\* a lid reassignment that shifts the lid pressures along with the temperatures
LidPShifted(ph, k) == IF k \in LidRange(ph) THEN P_MPa[k] + 1 ELSE P_MPa[k]

\* "Reset profile of upper layers, keeping pressure values fixed"
LidP(ph, k) == P_MPa[k]

LidReassign ==
    /\ pc = "lidT"
    /\ IF phase = "I" /\ Do.CLATHRATE
       THEN /\ err' = "NameError"
            /\ pc' = "err"
            /\ UNCHANGED <<arrays, i, thisMAbove_kg>>
       ELSE LET Tnew == [k \in Shells |-> IF k \in LidRange(phase) THEN LidT(phase, k) ELSE T_K[k]]
                tab == surfIceEOS(phase)
            IN  /\ thisMAbove_kg' = InitMAbove(phase)
                /\ T_K' = Tnew
                /\ rho_kgm3' = [k \in Shells |-> IF k \in LidRange(phase)
                                   THEN fn_rho_kgm3(tab, P_MPa[k], Tnew[k]) ELSE rho_kgm3[k]]
                /\ Cp_JkgK' = [k \in Shells |-> IF k \in LidRange(phase)
                                   THEN fn_Cp_JkgK(tab, P_MPa[k], Tnew[k]) ELSE Cp_JkgK[k]]
                /\ alpha_pK' = [k \in Shells |-> IF k \in LidRange(phase)
                                   THEN fn_alpha_pK(tab, P_MPa[k], Tnew[k]) ELSE alpha_pK[k]]
                /\ kTherm_WmK' = [k \in Shells |-> IF k \in LidRange(phase)
                                   THEN fn_kTherm_WmK(tab, P_MPa[k], Tnew[k]) ELSE kTherm_WmK[k]]
                /\ i' = top(phase) + 1
                /\ pc' = "lid"
                /\ P_MPa' = [k \in Shells |-> LidP(phase, k)]
                /\ UNCHANGED <<z_m, r_m, g_ms2, MLayer_kg, err>>
    /\ UNCHANGED <<inputs, conv, QfromMantle_W, Pmid, phase, zb_m, iConductEnd, iConvectEnd,
                   branch, pre>>
    /\ UNCHANGED loaderVars

\* for i in range(top + 1, nConduct)
LidStep ==
    /\ pc = "lid"
    /\ IF i < iConductEnd
       THEN /\ RadialStep(i)
            /\ i' = i + 1
            /\ pc' = pc
       ELSE /\ i' = iConductEnd
            /\ pc' = "conv"
            /\ UNCHANGED <<z_m, r_m, g_ms2, MLayer_kg, thisMAbove_kg>>
    /\ UNCHANGED <<P_MPa, T_K, rho_kgm3, Cp_JkgK, alpha_pK, kTherm_WmK, inputs, conv,
                   QfromMantle_W, Pmid, phase, zb_m, iConductEnd, iConvectEnd, branch, err, pre>>
    /\ UNCHANGED loaderVars

(***************************************************************************)
(* Convecting interior (lines 96-115, 230-249, 372-391): radial step,      *)
(* adiabatic temperature from the previous shell, properties at the new    *)
(* (P, T).                                                                 *)
(***************************************************************************)
\* a convecting interior that copies the temperature of the shell above
AdiabatIsothermal(k) == T_K[k-1]

Adiabat(k) ==
    T_K[k-1] + (T_K[k-1] * alpha_pK[k-1] * (P_MPa[k] - P_MPa[k-1]) * MPa2Pa)
                   \div (Cp_JkgK[k-1] * rho_kgm3[k-1])

\* a convecting loop that also takes the first boundary-layer shell
ConvRangeInclusive(ph) == iConductEnd..iConvectEnd

\* range(nConduct, nConduct + nConvect), range(iConductEnd, iConvectEnd)
ConvRange(ph) == iConductEnd..(iConvectEnd - 1)

ConvStep ==
    /\ pc = "conv"
    /\ IF i \in ConvRange(phase)
       THEN LET Tnew == Adiabat(i)
                tab == convEOS(phase)
            IN  /\ RadialStep(i)
                /\ T_K' = [T_K EXCEPT ![i] = Tnew]
                /\ rho_kgm3' = [rho_kgm3 EXCEPT ![i] = fn_rho_kgm3(tab, P_MPa[i], Tnew)]
                /\ Cp_JkgK' = [Cp_JkgK EXCEPT ![i] = fn_Cp_JkgK(tab, P_MPa[i], Tnew)]
                /\ alpha_pK' = [alpha_pK EXCEPT ![i] = fn_alpha_pK(tab, P_MPa[i], Tnew)]
                /\ kTherm_WmK' = [kTherm_WmK EXCEPT ![i] = fn_kTherm_WmK(tab, P_MPa[i], Tnew)]
                /\ i' = i + 1
                /\ pc' = pc
       ELSE /\ pc' = "tblT"
            /\ UNCHANGED <<T_K, z_m, r_m, rho_kgm3, Cp_JkgK, alpha_pK, kTherm_WmK, g_ms2,
                           MLayer_kg, thisMAbove_kg, i>>
    /\ UNCHANGED <<P_MPa, inputs, conv, QfromMantle_W, Pmid, phase, zb_m, iConductEnd,
                   iConvectEnd, branch, err, pre>>
    /\ UNCHANGED loaderVars

(***************************************************************************)
(* Lower thermal boundary layer (lines 117-131, 251-272, 393-413): the     *)
(* ice III and ice V routines first compare the bottom temperature with    *)
(* the temperature of the last convecting shell; then power-law            *)
(* temperatures over indsTBL and properties over indsTBL[:-1].             *)
(***************************************************************************)
\* a boundary layer interpolated from the stale temperature of its own first shell
TBLTFromOwnTop(ph, k) == PowLaw(Tbot(ph), T_K[iConvectEnd], P_MPa[k], PbOf(ph))

TBLT(ph, k) == PowLaw(Tbot(ph), T_K[iConvectEnd - 1], P_MPa[k], PbOf(ph))

TbTooCold(ph) == checksTb(ph) /\ T_K[iConvectEnd - 1] > Tbot(ph)

TBLReassign ==
    /\ pc = "tblT"
    /\ IF TbTooCold(phase)
       THEN /\ err' = "ValueError"
            /\ pc' = "err"
            /\ UNCHANGED <<arrays, i>>
       ELSE LET Tnew == [k \in Shells |-> IF k \in indsTBL(phase) THEN TBLT(phase, k) ELSE T_K[k]]
                tab == surfIceEOS(phase)
            IN  /\ T_K' = Tnew
                /\ rho_kgm3' = [k \in Shells |-> IF k \in indsTBLButLast(phase)
                                   THEN fn_rho_kgm3(tab, P_MPa[k], Tnew[k]) ELSE rho_kgm3[k]]
                /\ Cp_JkgK' = [k \in Shells |-> IF k \in indsTBLButLast(phase)
                                   THEN fn_Cp_JkgK(tab, P_MPa[k], Tnew[k]) ELSE Cp_JkgK[k]]
                /\ alpha_pK' = [k \in Shells |-> IF k \in indsTBLButLast(phase)
                                   THEN fn_alpha_pK(tab, P_MPa[k], Tnew[k]) ELSE alpha_pK[k]]
                /\ kTherm_WmK' = [k \in Shells |-> IF k \in indsTBLButLast(phase)
                                   THEN fn_kTherm_WmK(tab, P_MPa[k], Tnew[k]) ELSE kTherm_WmK[k]]
                /\ i' = iConvectEnd
                /\ pc' = "tbl"
                /\ UNCHANGED <<P_MPa, z_m, r_m, g_ms2, MLayer_kg, err>>
    /\ UNCHANGED <<inputs, conv, QfromMantle_W, Pmid, phase, zb_m, iConductEnd, iConvectEnd,
                   thisMAbove_kg, branch, pre>>
    /\ UNCHANGED loaderVars

\* for i in indsTBL
TBLStep ==
    /\ pc = "tbl"
    /\ IF i <= bottom(phase)
       THEN /\ RadialStep(i)
            /\ i' = i + 1
            /\ pc' = pc
       ELSE /\ pc' = "ret"
            /\ UNCHANGED <<z_m, r_m, g_ms2, MLayer_kg, thisMAbove_kg, i>>
    /\ UNCHANGED <<P_MPa, T_K, rho_kgm3, Cp_JkgK, alpha_pK, kTherm_WmK, inputs, conv,
                   QfromMantle_W, Pmid, phase, zb_m, iConductEnd, iConvectEnd, branch, err, pre>>
    /\ UNCHANGED loaderVars

\* return Planet: the driver makes the next phase's call
Return ==
    /\ pc = "ret"
    /\ phase' = nextPhase(phase)
    /\ pc' = IF nextPhase(phase) = "end" THEN "done" ELSE "call"
    /\ UNCHANGED <<arrays, inputs, conv, QfromMantle_W, Pmid, locals, branch, err, pre>>
    /\ UNCHANGED loaderVars

Next == Call \/ LidReassign \/ LidStep \/ ConvStep \/ TBLReassign \/ TBLStep \/ Return

Spec == Init /\ [][Next]_vars

\* the routines are straight-line code and loops: a call that can take a step takes it
FairSpec == Spec /\ WF_vars(Next)

(***************************************************************************)
(* PerplexEOSStruct.__init__ (InnerEOS.py lines 6-113), statement by       *)
(* statement.                                                              *)
(***************************************************************************)
Size(a) == Cardinality(DOMAIN a)

\* Constants.bar2MPa: pressures are saved as bar
bar2MPa(Pv) == Pv \div 10

\* np.linspace(a, b, n)
linspace(a, b, n) ==
    [k \in 0..(n - 1) |-> IF n = 1 THEN a ELSE a + (k * (b - a)) \div (n - 1)]

\* np.reshape(flat, (d, -1)): row a holds the flat entries a*cols .. a*cols + cols - 1
reshape(flat, d) ==
    [a \in 0..(d - 1) |-> [b \in 0..((Size(flat) \div d) - 1) |-> flat[a * (Size(flat) \div d) + b]]]

\* grid.T
Transposed(g) ==
    [b \in DOMAIN g[0] |-> [a \in DOMAIN g |-> g[a][b]]]

\* firstPT, secondPT, rho_kgm3, ... = np.loadtxt(...)
LoadTxt ==
    /\ epc = "loadtxt"
    /\ firstPT' = loadtxt(EOSfile).firstPT
    /\ secondPT' = loadtxt(EOSfile).secondPT
    /\ rhoTab' = loadtxt(EOSfile).rho_kgm3
    /\ epc' = "dim2"
    /\ UNCHANGED <<EOSfile, dim2, P_FIRST, Plin_MPa, Tlin_K, lenP, P1D_MPa, T1D_K,
                   fn_rho_grid, eerr, planetVars>>

\* dim2 = next(i[0] for i, val in np.ndenumerate(secondPT) if val != secondPT[0])
FindDim2 ==
    /\ epc = "dim2"
    /\ IF \E r \in DOMAIN secondPT : secondPT[r] # secondPT[0]
       THEN /\ dim2' = CHOOSE r \in DOMAIN secondPT :
                           /\ secondPT[r] # secondPT[0]
                           /\ \A q \in DOMAIN secondPT : secondPT[q] # secondPT[0] => r <= q
            /\ epc' = "header"
            /\ eerr' = eerr
       ELSE /\ eerr' = "StopIteration"
            /\ epc' = "err"
            /\ dim2' = dim2
    /\ UNCHANGED <<EOSfile, firstPT, secondPT, rhoTab, P_FIRST, Plin_MPa, Tlin_K, lenP,
                   P1D_MPa, T1D_K, fn_rho_grid, planetVars>>

\* if colHeaderLine[0] == 'P': ... elif colHeaderLine[0] == 'T': ... else: raise ValueError
ReadHeader ==
    /\ epc = "header"
    /\ IF EOSfile.colHeader0 = "P"
       THEN /\ P_FIRST' = TRUE
            /\ Plin_MPa' = [r \in DOMAIN firstPT |-> bar2MPa(firstPT[r])]
            /\ Tlin_K' = secondPT
            /\ lenP' = dim2
            /\ epc' = "axes"
            /\ eerr' = eerr
       ELSE IF EOSfile.colHeader0 = "T"
       THEN /\ P_FIRST' = FALSE
            /\ Plin_MPa' = [r \in DOMAIN secondPT |-> bar2MPa(secondPT[r])]
            /\ Tlin_K' = firstPT
            /\ lenP' = Size(secondPT) \div dim2
            /\ epc' = "axes"
            /\ eerr' = eerr
       ELSE /\ eerr' = "ValueError"
            /\ epc' = "err"
            /\ UNCHANGED <<P_FIRST, Plin_MPa, Tlin_K, lenP>>
    /\ UNCHANGED <<EOSfile, firstPT, secondPT, rhoTab, dim2, P1D_MPa, T1D_K, fn_rho_grid,
                   planetVars>>

\* P1D_MPa = np.linspace(...), T1D_K = np.linspace(...)
MakeAxes ==
    /\ epc = "axes"
    /\ P1D_MPa' = linspace(Plin_MPa[0], Plin_MPa[Size(Plin_MPa) - 1], lenP)
    /\ T1D_K' = linspace(Tlin_K[0], Tlin_K[Size(Tlin_K) - 1], Size(Tlin_K) \div lenP)
    /\ epc' = "reshape"
    /\ UNCHANGED <<EOSfile, firstPT, secondPT, rhoTab, dim2, P_FIRST, Plin_MPa, Tlin_K, lenP,
                   fn_rho_grid, eerr, planetVars>>

\* rho_kgm3 = np.reshape(rho_kgm3, (dim2,-1))
Reshape ==
    /\ epc = "reshape"
    /\ rhoTab' = reshape(rhoTab, dim2)
    /\ epc' = "transpose"
    /\ UNCHANGED <<EOSfile, firstPT, secondPT, dim2, P_FIRST, Plin_MPa, Tlin_K, lenP,
                   P1D_MPa, T1D_K, fn_rho_grid, eerr, planetVars>>

\* if not P_FIRST: rho_kgm3 = rho_kgm3.T
Transpose ==
    /\ epc = "transpose"
    /\ rhoTab' = IF ~P_FIRST THEN Transposed(rhoTab) ELSE rhoTab
    /\ epc' = "spline"
    /\ UNCHANGED <<EOSfile, firstPT, secondPT, dim2, P_FIRST, Plin_MPa, Tlin_K, lenP,
                   P1D_MPa, T1D_K, fn_rho_grid, eerr, planetVars>>

\* self.fn_rho_kgm3 = spi.RectBivariateSpline(P1D_MPa, T1D_K, rho_kgm3)
MakeSpline ==
    /\ epc = "spline"
    /\ IF Size(rhoTab) = Size(P1D_MPa) /\ \A a \in DOMAIN rhoTab : Size(rhoTab[a]) = Size(T1D_K)
       THEN /\ fn_rho_grid' = [x |-> P1D_MPa, y |-> T1D_K, z |-> rhoTab]
            /\ epc' = "done"
            /\ eerr' = eerr
       ELSE /\ eerr' = "ValueError"
            /\ epc' = "err"
            /\ fn_rho_grid' = fn_rho_grid
    /\ UNCHANGED <<EOSfile, firstPT, secondPT, rhoTab, dim2, P_FIRST, Plin_MPa, Tlin_K, lenP,
                   P1D_MPa, T1D_K, planetVars>>

\* PerplexEOSStruct(EOSfname) on any of the table files, before the first convection call
InitEOS ==
    /\ InitPlanet(CHOOSE sc \in Scenarios : TRUE)
    /\ EOSfile \in EOSfiles
    /\ firstPT = Empty /\ secondPT = Empty /\ rhoTab = Empty
    /\ dim2 = 0 /\ P_FIRST = FALSE
    /\ Plin_MPa = Empty /\ Tlin_K = Empty /\ lenP = 0
    /\ P1D_MPa = Empty /\ T1D_K = Empty
    /\ fn_rho_grid = [x |-> Empty, y |-> Empty, z |-> Empty]
    /\ epc = "loadtxt" /\ eerr = "none"

NextEOS == LoadTxt \/ FindDim2 \/ ReadHeader \/ MakeAxes \/ Reshape \/ Transpose \/ MakeSpline

EOSSpec == InitEOS /\ [][NextEOS]_vars

(***************************************************************************)
(* Properties.                                                             *)
(***************************************************************************)
\* every shell array at index k holds the value it had when the call started
SameAsBefore(k) ==
    /\ P_MPa[k] = pre.P[k] /\ T_K[k] = pre.T[k] /\ z_m[k] = pre.z[k] /\ r_m[k] = pre.r[k]
    /\ rho_kgm3[k] = pre.rho[k] /\ Cp_JkgK[k] = pre.Cp[k] /\ alpha_pK[k] = pre.alpha[k]
    /\ kTherm_WmK[k] = pre.kTherm[k] /\ g_ms2[k] = pre.g[k] /\ MLayer_kg[k] = pre.M[k]

\* C1: a call of any of the three routines that takes the whole-layer
\* conduction branch returns with every shell array (temperature, pressure,
\* depth, radius, density, heat capacity, expansivity, conductivity, gravity,
\* layer mass) exactly as it was when the call started.
C1_WholeLayerKeepsArrays ==
    (pc = "ret" /\ branch[phase] = "whole") => \A k \in Shells : SameAsBefore(k)

\* the ice III call returns from the whole-layer branch after a three-zone ice I call
C1_Witness ==
    pc = "ret" /\ phase = "III" /\ branch["III"] = "whole" /\ branch["I"] = "three"

\* C2 (amended): in the three-zone branch of the ice III and ice V routines,
\* with at least one convecting shell (iConductEnd < iConvectEnd), a bottom
\* temperature below the temperature of the last convecting shell makes the
\* call fail with ValueError before the boundary layer is assigned, and at
\* the failure no shell array entry at an index >= iConvectEnd differs from
\* its value at the start of the call.
C2_FailureFrame ==
    /\ (pc = "tbl" /\ checksTb(phase)) => T_K[iConvectEnd - 1] <= Tbot(phase)
    /\ (pc = "err" /\ err = "ValueError" /\ checksTb(phase) /\ iConductEnd < iConvectEnd)
           => \A k \in Shells : k >= iConvectEnd => SameAsBefore(k)

\* the ice V call has failed after its convecting loop rewrote the shell above the transition
C2_Witness ==
    /\ pc = "err" /\ err = "ValueError" /\ phase = "V" /\ iConductEnd < iConvectEnd
    /\ T_K[iConvectEnd - 1] > Bulk.TbV_K
    /\ ~SameAsBefore(iConvectEnd - 1)

\* C2 as stated: whenever the ice III or ice V call fails with ValueError, no
\* shell array entry at an index >= iConvectEnd differs from its value at the
\* start of the call (also when the convecting zone holds no shell).
C2_AsStated ==
    (pc = "err" /\ err = "ValueError" /\ checksTb(phase))
        => \A k \in Shells : k >= iConvectEnd => SameAsBefore(k)

\* C3 as stated: in every one of the three routines the boundary-layer
\* temperatures are assigned only if the bottom temperature is not below the
\* temperature of the last convecting shell.
C3_AllPhasesCheckTb ==
    pc = "tbl" => T_K[iConvectEnd - 1] <= Tbot(phase)

\* C4 as stated: after the three calls every shell's gravity is
\* G * (M_kg - sum of the stored MLayer_kg above it) / r_m^2.
C4_GravityConsistent ==
    pc = "done" =>
        \A k \in Shells : g_ms2[k] = StepGravity(Bulk.M_kg, SumTo(MLayer_kg, k), r_m[k])

\* C5: at every step of the lid, convecting and boundary-layer loops of every
\* routine, the running mass above equals the sum of the stored layer masses
\* of the shells above the shell just stepped, and that shell's gravity is
\* computed from the mass below, M_kg minus the running mass above.
C5_MassConservation ==
    pc \in {"lid", "conv", "tblT", "tbl"} =>
        /\ thisMAbove_kg = SumTo(MLayer_kg, i - 1)
        /\ i > top(phase) + 1 =>
               g_ms2[i-1] = (G * (Bulk.M_kg - SumTo(MLayer_kg, i - 1))) \div (r_m[i-1] * r_m[i-1])

\* the ice V boundary-layer loop has stepped its last shell after a lid and a convecting zone
C5_Witness ==
    /\ pc = "tbl" /\ phase = "V" /\ i = nSurfIce + 1
    /\ nIIIbottom + 1 < iConductEnd /\ iConductEnd < iConvectEnd /\ iConvectEnd <= nSurfIce
    /\ branch["I"] = "three" /\ branch["III"] = "three"

\* C6 as stated: when a call has returned, within each phase's index range
\* depth increases strictly and pressure does not decrease from each shell
\* to the next.
C6_Monotone ==
    pc = "ret" =>
        \A ph \in Phases : \A k \in top(ph)..(bottom(ph) - 1) :
            z_m[k] < z_m[k+1] /\ P_MPa[k] <= P_MPa[k+1]

\* C7 as stated: after a three-zone call with a convecting shell, the first
\* convecting shell (index iConductEnd) holds the last temperature the lid
\* reassignment computed, the convected temperature.
C7_LidToConvection ==
    (pc = "ret" /\ branch[phase] = "three" /\ iConductEnd < iConvectEnd)
        => T_K[iConductEnd] = conv[phase].Tconv_K

\* C8 (amended): after a three-zone call with a boundary-layer shell, the
\* first boundary-layer shell (index iConvectEnd) holds the power-law value
\* Tb^(P/Pb) * Tlast^(1 - P/Pb) at its own pressure P, where Tlast is the
\* temperature of the last convecting shell (index iConvectEnd - 1); with
\* 0 <= P <= Pb it lies between Tlast and the bottom temperature, both
\* included.
C8_ConvectionToTBL ==
    (pc = "ret" /\ branch[phase] = "three" /\ iConvectEnd <= bottom(phase)) =>
        LET Tlast == T_K[iConvectEnd - 1]
            Pv == P_MPa[iConvectEnd]
        IN  /\ T_K[iConvectEnd] = PowLaw(Tbot(phase), Tlast, Pv, PbOf(phase))
            /\ (0 <= Pv /\ Pv <= PbOf(phase)) =>
                   /\ Min(Tlast, Tbot(phase)) <= T_K[iConvectEnd]
                   /\ T_K[iConvectEnd] <= Max(Tlast, Tbot(phase))

\* a three-zone ice I call has returned with a first boundary-layer shell warmer than
\* the last convecting shell and colder than the bottom
C8_Witness ==
    /\ pc = "ret" /\ phase = "I" /\ branch["I"] = "three"
    /\ iConductEnd < iConvectEnd /\ iConvectEnd < nIbottom
    /\ T_K[iConvectEnd - 1] < T_K[iConvectEnd] /\ T_K[iConvectEnd] < Bulk.Tb_K

\* C8 as stated: after a three-zone call with a boundary-layer shell, the
\* first boundary-layer shell holds the temperature of the last convecting
\* shell.
C8_AsStated ==
    (pc = "ret" /\ branch[phase] = "three" /\ iConvectEnd <= bottom(phase))
        => T_K[iConvectEnd] = T_K[iConvectEnd - 1]

\* C9 as stated: after a three-zone ice I call the temperature does not
\* decrease with the shell index over 0..nIbottom, shell 0 holds the surface
\* temperature and shell nIbottom holds the bottom temperature.
C9_IceIProfile ==
    (pc = "ret" /\ phase = "I" /\ branch["I"] = "three") =>
        /\ \A k \in 0..(nIbottom - 1) : T_K[k] <= T_K[k+1]
        /\ T_K[0] = Bulk.Tsurf_K
        /\ T_K[nIbottom] = Bulk.Tb_K

\* C10 as stated: right after the lid reassignment of any routine, the top
\* shell of the phase holds the temperature it had when the call started and
\* every other lid shell holds the power law between that temperature and
\* the convected temperature at its pressure ratio.
C10_FixedTopTemperature ==
    (pc = "lid" /\ i = top(phase) + 1) =>
        /\ T_K[top(phase)] = pre.T[top(phase)]
        /\ \A k \in (top(phase) + 1)..iConductEnd :
               T_K[k] = PowLaw(conv[phase].Tconv_K, pre.T[top(phase)], P_MPa[k], P_MPa[iConductEnd])

\* some shell array changes at index k in this step
Written(k) ==
    \/ P_MPa'[k] # P_MPa[k] \/ T_K'[k] # T_K[k] \/ z_m'[k] # z_m[k] \/ r_m'[k] # r_m[k]
    \/ rho_kgm3'[k] # rho_kgm3[k] \/ Cp_JkgK'[k] # Cp_JkgK[k] \/ alpha_pK'[k] # alpha_pK[k]
    \/ kTherm_WmK'[k] # kTherm_WmK[k] \/ g_ms2'[k] # g_ms2[k] \/ MLayer_kg'[k] # MLayer_kg[k]

\* C11 as stated: every step of a phase's call changes shell arrays only at
\* indices of that phase's own sub-range top..bottom.
C11_SubRangeIsolation ==
    [][\A k \in Shells : Written(k) => k \in top(phase)..bottom(phase)]_vars

\* C12: no step of any call, in either branch and in any zone, changes the
\* pressure array, so after any sequence of calls every shell holds its
\* initial pressure.
C12_PressureFixed ==
    [][P_MPa' = P_MPa]_vars

\* the three calls have returned from the three-zone branch, each having rewritten
\* temperatures and depths of its range
C12_Witness ==
    /\ pc = "done" /\ \A ph \in Phases : branch[ph] = "three"
    /\ T_K # pre.T /\ z_m # pre.z /\ P_MPa = pre.P

\* the call is in its three-zone branch, past the index search
InThreeZone ==
    pc \in {"lidT", "lid", "conv", "tblT", "tbl", "ret"} /\ branch[phase] = "three"

\* C13 (amended): a call that does not fall back to whole-layer conduction
\* has a layer strictly thicker than lid plus boundary layer, and its two
\* transition indices satisfy iConductEnd <= iConvectEnd: the convecting
\* zone never has a negative number of shells, but it may hold no shell.
C13_ZoneNotNegative ==
    InThreeZone =>
        /\ zb_m > conv[phase].eLid_m + conv[phase].deltaTBL_m
        /\ iConductEnd <= iConvectEnd

\* an ice III call has returned from the three-zone branch with a convecting zone of no shell
C13_Witness ==
    /\ pc = "ret" /\ phase = "III" /\ branch["III"] = "three"
    /\ iConductEnd = iConvectEnd
    /\ zb_m > conv["III"].eLid_m + conv["III"].deltaTBL_m

\* C13 as stated: in the three-zone branch the convecting zone holds at
\* least one shell, iConductEnd < iConvectEnd.
C13_AsStated ==
    InThreeZone => iConductEnd < iConvectEnd

\* C14 (amended): each call assigns the convective temperature, viscosity,
\* lid thickness, boundary-layer thickness and Rayleigh number of its own
\* phase only, so no step of a call changes these five values of another
\* phase; the heat flow is not among them, it is the single QfromMantle_W
\* that every call assigns.
C14_SummaryPerPhase ==
    [][\A ph \in Phases : ph # phase => conv'[ph] = conv[ph]]_vars

\* the three calls have run and left three regimes, and the heat flow is not the one
\* the ice I call left
C14_Witness ==
    /\ pc = "done"
    /\ \A ph \in Phases : conv[ph] # NoRegime
    /\ conv["I"] # conv["III"] /\ conv["III"] # conv["V"]
    /\ branch["I"] = "whole"
    /\ QfromMantle_W # ((T_K[1] - Bulk.Tsurf_K) * kTherm_WmK[0] * 4 * 22 * Bulk.R_m * Bulk.R_m)
                           \div ((Bulk.R_m - r_m[1]) * 7)

\* C14 as stated: no step of the ice III or ice V call changes a summary
\* value an earlier call produced: the five regime values of the earlier
\* phases and the heat flow.
C14_AsStated ==
    [][(phase \in {"III", "V"}) =>
          (QfromMantle_W' = QfromMantle_W /\ (\A ph \in Phases : ph # phase => conv'[ph] = conv[ph]))]_vars

\* C15 as stated: a call of any routine that returns from the whole-layer
\* branch leaves as heat flow the conductive flux between the first two
\* shells of its sub-range: their temperature difference over their radial
\* separation, times the top conductivity and the area of the sphere.
C15_WholeLayerHeatFlux ==
    (pc = "ret" /\ branch[phase] = "whole") =>
        LET t == top(phase)
        IN  QfromMantle_W =
                ((T_K[t+1] - T_K[t]) * kTherm_WmK[t] * 4 * 22 * r_m[t] * r_m[t])
                    \div ((r_m[t] - r_m[t+1]) * 7)

\* C16: in the three-zone branch of the ice I routine, a number of clathrate
\* shells nClath greater than the lid transition index nConduct makes the
\* call fail with ValueError with every shell array as it was when the call
\* started, and the ice I call never gets past its index search with
\* nClath > nConduct.
C16_ClathrateIndexError ==
    /\ (pc = "err" /\ phase = "I" /\ err = "ValueError") =>
           /\ Steps.nClath > iConductEnd
           /\ \A k \in Shells : SameAsBefore(k)
    /\ (phase = "I" /\ InThreeZone) => Steps.nClath <= iConductEnd

\* the ice I call has failed on three clathrate shells and a lid transition index below three
C16_Witness ==
    /\ pc = "err" /\ phase = "I" /\ err = "ValueError" /\ branch["I"] = "three"
    /\ Steps.nClath = 3 /\ iConductEnd \in 1..2

\* C17 as stated: the mid pressure each routine hands to the classifier is
\* the pressure midway between the top and the bottom pressure of its
\* layer, so it lies between the two.
C17_MidPressure ==
    \A ph \in Phases : branch[ph] # "none" =>
        /\ Pmid[ph] = (PtopOf(ph) + PbOf(ph)) \div 2
        /\ PtopOf(ph) <= Pmid[ph] /\ Pmid[ph] <= PbOf(ph)

\* the four EOS properties of shell k are those of table tab at the shell's pressure and temperature
PropsFrom(tab, k) ==
    /\ rho_kgm3[k] = fn_rho_kgm3(tab, P_MPa[k], T_K[k])
    /\ Cp_JkgK[k] = fn_Cp_JkgK(tab, P_MPa[k], T_K[k])
    /\ alpha_pK[k] = fn_alpha_pK(tab, P_MPa[k], T_K[k])
    /\ kTherm_WmK[k] = fn_kTherm_WmK(tab, P_MPa[k], T_K[k])

\* C18 as stated: after the three calls, density, heat capacity, expansivity
\* and conductivity of the shared boundary shells nIbottom and nIIIbottom
\* are those of the lower phase's EOS (ice III, ice V) at the shell's final
\* pressure and temperature, whichever branches the calls took.
C18_BoundaryShellFilled ==
    pc = "done" => PropsFrom("III", nIbottom) /\ PropsFrom("V", nIIIbottom)

\* the four EOS properties of shell k are as they were when the call started
PropsAsBefore(k) ==
    /\ rho_kgm3[k] = pre.rho[k] /\ Cp_JkgK[k] = pre.Cp[k]
    /\ alpha_pK[k] = pre.alpha[k] /\ kTherm_WmK[k] = pre.kTherm[k]

\* temperature, depth, radius and gravity of boundary-layer shell k are the rewritten ones
TBLRewritten(k) ==
    /\ T_K[k] = PowLaw(Tbot(phase), T_K[iConvectEnd - 1], P_MPa[k], PbOf(phase))
    /\ z_m[k] = z_m[k-1] + ((P_MPa[k] - P_MPa[k-1]) * MPa2Pa) \div (g_ms2[k-1] * rho_kgm3[k-1])
    /\ r_m[k] = Bulk.R_m - z_m[k]
    /\ g_ms2[k] = (G * (Bulk.M_kg - SumTo(MLayer_kg, k))) \div (r_m[k] * r_m[k])

\* C19 as stated: after a three-zone call, every boundary-layer shell but
\* the phase's bottom shell has the four EOS properties of the phase's table
\* at its pressure and new temperature, the bottom shell has the four
\* properties it had when the call started, and every boundary-layer shell,
\* the bottom one included, has the rewritten temperature, depth, radius
\* and gravity.
C19_AsStated ==
    (pc = "ret" /\ branch[phase] = "three") =>
        /\ \A k \in indsTBLButLast(phase) : PropsFrom(surfIceEOS(phase), k)
        /\ iConvectEnd <= bottom(phase) => PropsAsBefore(bottom(phase))
        /\ \A k \in indsTBL(phase) : TBLRewritten(k)

\* the four EOS properties of shell k are those of table tab at its pressure and temperature T
PropsAt(tab, k, T) ==
    /\ rho_kgm3[k] = fn_rho_kgm3(tab, P_MPa[k], T) /\ Cp_JkgK[k] = fn_Cp_JkgK(tab, P_MPa[k], T)
    /\ alpha_pK[k] = fn_alpha_pK(tab, P_MPa[k], T) /\ kTherm_WmK[k] = fn_kTherm_WmK(tab, P_MPa[k], T)

\* C19 (amended): after a three-zone call with a boundary layer, every
\* boundary-layer shell but the phase's bottom shell has the four EOS
\* properties of the phase's table at its pressure and new temperature;
\* the boundary-layer step does not write the bottom shell's four
\* properties, which are the pre-call ones when the lid ends above the
\* bottom shell and the lid's (the phase's table at the convecting
\* temperature) when the lid ends on it; every boundary-layer shell, the
\* bottom one included, has the rewritten temperature, depth, radius and
\* gravity.
C19_TBLBottomShell ==
    (pc = "ret" /\ branch[phase] = "three" /\ iConvectEnd <= bottom(phase)) =>
        /\ \A k \in iConvectEnd..(bottom(phase) - 1) : PropsFrom(surfIceEOS(phase), k)
        /\ IF iConductEnd < bottom(phase)
           THEN PropsAsBefore(bottom(phase))
           ELSE PropsAt(surfIceEOS(phase), bottom(phase), conv[phase].Tconv_K)
        /\ \A k \in indsTBL(phase) : TBLRewritten(k)

\* C19 witness: a three-zone call returns with a boundary layer of several
\* shells below a convecting zone; the upper boundary-layer shells have
\* new properties, the bottom shell has a new depth and its old properties
\* although the table gives other ones at its pressure and temperature.
C19_Witness ==
    /\ pc = "ret" /\ branch[phase] = "three"
    /\ iConductEnd < iConvectEnd /\ iConvectEnd < bottom(phase)
    /\ rho_kgm3[iConvectEnd] # pre.rho[iConvectEnd]
    /\ z_m[bottom(phase)] # pre.z[bottom(phase)]
    /\ PropsAsBefore(bottom(phase))
    /\ ~PropsFrom(surfIceEOS(phase), bottom(phase))

\* one step of a three-zone call, seen from the loop index: the lid
\* reassignment starts the index at the shell below the phase top, a loop
\* iteration applies the radial step to shell i and moves on to i + 1, a
\* change of zone keeps the index, and the last zone ends past the bottom
InOrderStep ==
    /\ (pc = "lidT" /\ pc' = "lid") => i' = top(phase) + 1
    /\ (pc \in {"lid", "conv", "tblT", "tbl"} /\ pc' # "err") =>
           \/ i' = i /\ UNCHANGED <<z_m, r_m, MLayer_kg, thisMAbove_kg, g_ms2>>
           \/ i' = i + 1 /\ i <= bottom(phase) /\ RadialStep(i)
    /\ (pc = "tbl" /\ pc' = "ret") => i = bottom(phase) + 1

\* C20 as stated: in a three-zone call the radial step is applied to the
\* shells top + 1, top + 2, ..., bottom of the phase, each once and in
\* this order, with one formula in the three zones, and the index neither
\* jumps nor repeats where the zones meet.
C20_UniformRadialStep == [][InOrderStep]_vars

\* the convecting shells the loop has finished in the current three-zone call
ConvectedSoFar ==
    IF pc = "conv" THEN iConductEnd..(i - 1)
    ELSE IF pc \in {"tblT", "tbl", "ret"} THEN iConductEnd..(iConvectEnd - 1)
    ELSE {}

\* C21: in a three-zone call, every convecting shell k the loop has
\* finished has the adiabatic temperature and the hydrostatic depth
\* computed from shell k-1's temperature, expansivity, heat capacity,
\* density and gravity as they now stand (pressures in Pa), and its own
\* four properties are those of the phase's convecting table at its
\* pressure and that new temperature.
C21_ConvectingStep ==
    InThreeZone =>
        \A k \in ConvectedSoFar :
            /\ T_K[k] = T_K[k-1] + (T_K[k-1] * alpha_pK[k-1] * (P_MPa[k] - P_MPa[k-1]) * MPa2Pa)
                                       \div (Cp_JkgK[k-1] * rho_kgm3[k-1])
            /\ z_m[k] = z_m[k-1] + ((P_MPa[k] - P_MPa[k-1]) * MPa2Pa) \div (g_ms2[k-1] * rho_kgm3[k-1])
            /\ PropsFrom(convEOS(phase), k)

\* C21 witness: a three-zone call has returned with two or more convecting
\* shells, each warmer than the shell above it, with a density that
\* differs from the one above.
C21_Witness ==
    /\ pc = "ret" /\ branch[phase] = "three"
    /\ iConvectEnd >= iConductEnd + 2
    /\ \A k \in iConductEnd..(iConvectEnd - 1) : T_K[k] > T_K[k-1] /\ z_m[k] > z_m[k-1]
    /\ rho_kgm3[iConductEnd + 1] # rho_kgm3[iConductEnd]

\* C22: when a three-zone call returns, the lid shells above the
\* convecting zone and the boundary-layer shells above the bottom shell
\* have the properties of surfIceEOS['Ih'] in the ice I call,
\* surfIceEOS['III'] in the ice III call and surfIceEOS['V'] in the ice V
\* call; the convecting shells have those of the same table in the ice I
\* and ice III calls and of iceEOS['V'] in the ice V call.
C22_TablePerZone ==
    (pc = "ret" /\ branch[phase] = "three") =>
        LET own == CASE phase = "I" -> "Ih" [] phase = "III" -> "III" [] OTHER -> "V"
            inner == CASE phase = "I" -> "Ih" [] phase = "III" -> "III" [] OTHER -> "iceV"
        IN  /\ \A k \in top(phase)..(iConductEnd - 1) : PropsFrom(own, k)
            /\ \A k \in iConductEnd..(iConvectEnd - 1) : PropsFrom(inner, k)
            /\ \A k \in iConvectEnd..(bottom(phase) - 1) : PropsFrom(own, k)

\* C22 witness: a three-zone ice V call returns with lid, convecting and
\* boundary-layer shells, and the convecting shell's properties are not
\* those the lid's table gives at its pressure and temperature.
C22_Witness ==
    /\ pc = "ret" /\ phase = "V" /\ branch["V"] = "three"
    /\ nIIIbottom < iConductEnd /\ iConductEnd < iConvectEnd /\ iConvectEnd < nSurfIce
    /\ ~PropsFrom("V", iConductEnd)
    /\ ~PropsFrom("iceV", nIIIbottom)

\* first shell of the phase, counted from its top, whose depth below the phase top exceeds d
FirstBelowTop(ph, d) ==
    CHOOSE k \in top(ph)..(bottom(ph) + 1) :
        /\ k <= bottom(ph) => pre.z[k] - pre.z[top(ph)] > d
        /\ \A j \in top(ph)..(bottom(ph)) : (pre.z[j] - pre.z[top(ph)] > d) => k <= j

\* C23 as stated: a call that takes the three-zone branch finds both
\* transition indices (the search does not run off the depth array), they
\* satisfy top < iConductEnd <= iConvectEnd <= bottom, and they are the
\* first shells of the phase deeper below the phase top than the lid
\* thickness and than the layer thickness less the boundary-layer
\* thickness.
C23_ZonePartition ==
    /\ (pc = "err" /\ phase \in Phases) => err # "StopIteration"
    /\ InThreeZone =>
        /\ top(phase) < iConductEnd
        /\ iConductEnd <= iConvectEnd
        /\ iConvectEnd <= bottom(phase)
        /\ iConductEnd = FirstBelowTop(phase, conv[phase].eLid_m)
        /\ iConvectEnd = FirstBelowTop(phase, zb_m - conv[phase].deltaTBL_m)

\* iterations of the three recurrence loops the current three-zone call has made
StepsDone == i - (top(phase) + 1)

\* shells in the current phase's sub-range top..bottom
ShellsInRange == bottom(phase) - top(phase) + 1

\* C24 as stated: every call ends, by returning or by raising; in a
\* three-zone call the loops make at most as many iterations as the
\* phase's sub-range has shells; and the loop index only stays or moves to
\* the next shell, so no shell is visited twice and no step is retried.
C24_Termination ==
    /\ (pc = "call") ~> (pc \in {"ret", "err"})
    /\ []((InThreeZone /\ pc # "lidT") => StepsDone <= ShellsInRange)
    /\ [][(pc \in {"lid", "conv", "tblT", "tbl"}) => (i' = i \/ i' = i + 1)]_vars

\* the search of lines 50-51, 187-188, 328-329 over the depths the call started with
FirstAboveBefore(v) ==
    CHOOSE k \in Shells : pre.z[k] > v /\ \A j \in Shells : pre.z[j] > v => k <= j

\* C25 as stated: when a three-zone call returns, its two transition
\* indices are the ones the search gives on the depths the call started
\* with, and on the recomputed depths the shell iConductEnd is still the
\* first shell of the phase that lies deeper below the phase top than the
\* lid thickness.
C25_PartitionAfterRecompute ==
    (pc = "ret" /\ branch[phase] = "three") =>
        LET t == top(phase)
            e == conv[phase].eLid_m
        IN  /\ iConductEnd = FirstAboveBefore(pre.z[t] + e)
            /\ iConvectEnd = FirstAboveBefore(pre.z[t] + zb_m - conv[phase].deltaTBL_m)
            /\ iConductEnd <= bottom(phase)
            /\ z_m[iConductEnd] - z_m[t] > e
            /\ \A j \in t..(iConductEnd - 1) : z_m[j] - z_m[t] <= e

\* C26 as stated: an ice I call with Do.CLATHRATE set that takes the
\* three-zone branch and passes the clathrate index test does not stop in
\* its lid: the only error it can end with is the ValueError of that
\* test, and once its loops run the running mass above has been
\* initialised, to zero as without clathrates.
C26_ClathrateLidPath ==
    (phase = "I" /\ Do.CLATHRATE /\ branch["I"] = "three") =>
        /\ pc = "err" => err = "ValueError"
        /\ (pc = "lid" /\ i = 1) => thisMAbove_kg = 0

\* number of pressures and of temperatures of a table file
nPof(f) == IF PInFirstColumn(f) THEN f.n1 ELSE f.n2
nTof(f) == IF PInFirstColumn(f) THEN f.n2 ELSE f.n1

\* C27 as stated: when the constructor has built the interpolator of a
\* table with nP pressures and nT temperatures, pressure first or
\* temperature first, the grid it was built on has nP rows of nT entries
\* and its entry [iP][iT] is the value the table lists for the iP-th
\* pressure and the iT-th temperature.
C27_GridOrientation ==
    epc = "done" =>
        LET z == fn_rho_grid.z
            nP == nPof(EOSfile)
            nT == nTof(EOSfile)
        IN  /\ Size(z) = nP
            /\ \A iP \in 0..(nP - 1) :
                /\ Size(z[iP]) = nT
                /\ \A iT \in 0..(nT - 1) : z[iP][iT] = ValueAt(EOSfile, iP, iT)

====
